---- MODULE Spec2Model ----
(***************************************************************************)
(* GREENBYTE backend: Gmail metadata aggregation (email_analyzer.py), the  *)
(* OAuth token file (gmail_service.py, auth_routes.py), the /emails/summary *)
(* route (email_routes.py) and the carbon estimate (carbon_calculator.py).  *)
(*                                                                         *)
(* Units.  Sizes are bytes.  Datetimes are whole days since the epoch: the  *)
(* code compares datetimes at microsecond resolution, and the day is the    *)
(* resolution the "365 days" boundary is stated in.                         *)
(***************************************************************************)
EXTENDS Integers, Sequences, FiniteSets, TLC

\* ------------------------------------------------------------------------
\* Program constants (email_analyzer.py)
\* ------------------------------------------------------------------------
OLD_EMAIL_THRESHOLD_DAYS == 365

LARGE_ATTACHMENT_THRESHOLD_BYTES == 1048576

MAX_EMAILS_TO_FETCH == 500

BATCH_SIZE == 100

\* ------------------------------------------------------------------------
\* Bounds of the model
\* ------------------------------------------------------------------------
\* The day on which a run may start, and how many days may pass during it.
StartDay == 400

MaxElapsed == 1

\* How many of a run's messages may be other than plain.
MaxSpecial == 2

\* How many times the user may complete the OAuth flow.
MaxLogins == 2

\* Python's None, and a present value: (x, None) is <<Some(x), None>>.
None == << >>

Some(x) == << x >>

Min(a, b) == IF a < b THEN a ELSE b

VARIABLES
    apc,            \* analyze_emails: "list", "batch", "profile", "done"
    messages,       \* results.get("messages", []): the listed identifiers
    i,              \* loop variable of "for i in range(0, len(messages), BATCH_SIZE)"
    stats,          \* the counters process_message closes over
    one_year_ago,   \* the cutoff, computed before the first batch
    now,            \* datetime.now(timezone.utc), in days
    ret,            \* the pair analyze_emails returns: <<stats, error>>
    calls,          \* history: the provider calls issued, in order
    fetched,        \* history: the per-message outcomes the provider delivered
    startedAt,      \* history: the clock when the cutoff was taken
    failed          \* history: which provider call raised ("none" if none did)

avars == << apc, messages, i, stats, one_year_ago, now, ret, calls, fetched,
            startedAt, failed >>

VARIABLES
    mb_in,          \* calculate_carbon: the argument total_size_mb
    estimate,       \* calculate_carbon: the dict returned, None before the call
    previous        \* history: the argument and severity of the call before

cvars == << mb_in, estimate, previous >>

VARIABLES
    tokenFile,      \* TOKEN_FILE on disk: missing, empty (opened "w"), or a record
    issued,         \* how many access tokens the provider has minted
    lapsed,         \* the access tokens whose lifetime is over (the provider's view)
    pc,             \* control point of each thread
    creds,          \* each thread's Credentials object, None before it has one
    answer,         \* each thread's HTTP response, None before it is sent
    logins,         \* how many /callback requests have been served
    observed,       \* history: the file as json.load found it, per request
    checked,        \* history: the loaded token's state when validity was tested
    contacted       \* history: whether the request called the token endpoint

uvars == << tokenFile, issued, lapsed, pc, creds, answer, logins, observed,
            checked, contacted >>

\* ------------------------------------------------------------------------
\* The provider's per-message outcomes
\* ------------------------------------------------------------------------
\* A field of a response: an integer, absent, or (for internalDate, which the
\* provider sends as a string) a string int() cannot parse.
IntField(v) == [tag |-> "int", v |-> v]

Absent == [tag |-> "absent", v |-> 0]

Unparsable == [tag |-> "bad", v |-> 0]

Outcome(exc, size, date) ==
    [exception |-> exc, sizeEstimate |-> size, internalDate |-> date]

PlainMessage == Outcome(FALSE, IntField(2048), IntField(StartDay))

FetchError == Outcome(TRUE, Absent, Absent)

BadDateMessage ==
    Outcome(FALSE, IntField(LARGE_ATTACHMENT_THRESHOLD_BYTES), Unparsable)

LargeOnCutoff ==
    Outcome(FALSE, IntField(LARGE_ATTACHMENT_THRESHOLD_BYTES),
            IntField(StartDay - OLD_EMAIL_THRESHOLD_DAYS))

AlmostLargeOld ==
    Outcome(FALSE, IntField(LARGE_ATTACHMENT_THRESHOLD_BYTES - 1),
            IntField(StartDay - OLD_EMAIL_THRESHOLD_DAYS - 1))

BareMessage == Outcome(FALSE, Absent, Absent)

SpecialOutcomes ==
    { FetchError, BadDateMessage, LargeOnCutoff, AlmostLargeOld, BareMessage }

\* ------------------------------------------------------------------------
\* process_message (email_analyzer.py 56-79)
\* ------------------------------------------------------------------------
\* response.get(key, 0)
Get(field) == IF field.tag = "absent" THEN IntField(0) ELSE field

\* int(x) raises ValueError on a string that is not a number
IntRaises(field) == field.tag = "bad"

ZeroStats ==
    [total_size_bytes |-> 0, old_emails_count |-> 0, large_attachment_count |-> 0]

\* process_message with the size boundary taken exclusively (size > threshold)
process_message_exclusive(st, response, cutoff) ==
    IF response.exception
    THEN st
    ELSE LET size == Get(response.sizeEstimate).v
             st1 == [st EXCEPT !.total_size_bytes = @ + size]
             st2 == IF size > LARGE_ATTACHMENT_THRESHOLD_BYTES
                    THEN [st1 EXCEPT !.large_attachment_count = @ + 1]
                    ELSE st1
             date == Get(response.internalDate)
         IN  IF IntRaises(date)
             THEN st2
             ELSE IF date.v < cutoff
                  THEN [st2 EXCEPT !.old_emails_count = @ + 1]
                  ELSE st2

process_message(st, response, cutoff) ==
    IF response.exception
    THEN st
    ELSE LET size == Get(response.sizeEstimate).v
             st1 == [st EXCEPT !.total_size_bytes = @ + size]
             st2 == IF size >= LARGE_ATTACHMENT_THRESHOLD_BYTES
                    THEN [st1 EXCEPT !.large_attachment_count = @ + 1]
                    ELSE st1
             date == Get(response.internalDate)
         IN  IF IntRaises(date)
             THEN st2      \* the except clause: what was added stays added
             ELSE IF date.v < cutoff
                  THEN [st2 EXCEPT !.old_emails_count = @ + 1]
                  ELSE st2

\* batch.execute(): the callbacks of one batch, in the order delivered.
\* trace holds the counters before the first callback and after each one;
\* the next response to process is the one at index Len(trace).
RECURSIVE RunCallbacks(_, _, _)
RunCallbacks(trace, responses, cutoff) ==
    IF Len(trace) > Len(responses)
    THEN trace[Len(trace)]
    ELSE RunCallbacks(
             Append(trace, process_message(trace[Len(trace)],
                                           responses[Len(trace)], cutoff)),
             responses, cutoff)

\* ------------------------------------------------------------------------
\* analyze_emails (email_analyzer.py 19-124)
\* ------------------------------------------------------------------------
\* round(total_size_bytes / (1024 * 1024), 2), in hundredths of a megabyte.
\* The quotient by 2^20 is exact in a double, and round() rounds half to even.
HalfEven(q, r, den) ==
    IF 2 * r > den \/ (2 * r = den /\ q % 2 = 1) THEN q + 1 ELSE q

RoundHalfEven(num, den) == HalfEven(num \div den, num % den, den)

total_size_mb(bytes) ==
    LET mib == 1024 * 1024
    IN  (bytes \div mib) * 100 + RoundHalfEven((bytes % mib) * 100, mib)

\* the failure path handing back statistics next to the error
AnalysisFailureWithStats(cause) ==
    << Some(ZeroStats), Some([msg |-> "Failed to analyze emails", cause |-> cause]) >>

\* except Exception as e: return None, f"Failed to analyze emails: {str(e)}"
AnalysisFailure(cause) ==
    << None, Some([msg |-> "Failed to analyze emails", cause |-> cause]) >>

\* The dict returned when the list call yields no message (lines 34-41)
EmptyStats ==
    [total_emails |-> 0, total_size_bytes |-> 0, total_size_mb |-> 0,
     old_emails_count |-> 0, large_attachment_emails_count |-> 0,
     analyzed_count |-> 0]

\* The dict returned after the profile lookup (lines 109-121); the rounded
\* percentage and the note are renderings of fields kept here.
FullStats(st, msgs, total_in_account) ==
    [total_emails_in_account |-> total_in_account,
     emails_analyzed |-> Len(msgs),
     total_size_bytes |-> st.total_size_bytes,
     total_size_mb |-> total_size_mb(st.total_size_bytes),
     old_emails_count |-> st.old_emails_count,
     large_attachment_emails_count |-> st.large_attachment_count,
     analysis_limit |-> MAX_EMAILS_TO_FETCH]

\* The clock may advance while a provider call is in flight.
Elapse == { t \in now .. now + 1 : t <= StartDay + MaxElapsed }

\* the slice taken one element too long
batch_messages_overlong(msgs, from) ==
    SubSeq(msgs, from + 1, Min(from + BATCH_SIZE + 1, Len(msgs)))

\* messages[i:i + BATCH_SIZE]
batch_messages(msgs, from) ==
    SubSeq(msgs, from + 1, Min(from + BATCH_SIZE, Len(msgs)))

\* What the provider may deliver for a batch of n requests: one outcome per
\* request, in callback order.  A run is a record [outcome, count].
Run(o, n) == [outcome |-> o, count |-> n]

NonEmpty(runs) == SelectSeq(runs, LAMBDA r : r.count > 0)

Deliveries(n) ==
    { << Run(PlainMessage, n) >> } \cup
    { NonEmpty(<< Run(s, 1), Run(PlainMessage, n - 1) >>) : s \in SpecialOutcomes } \cup
    { NonEmpty(<< Run(PlainMessage, n - 1), Run(s, 1) >>) : s \in SpecialOutcomes }

RECURSIVE Expand(_)
Expand(runs) ==
    IF runs = << >>
    THEN << >>
    ELSE [k \in 1 .. Head(runs).count |-> Head(runs).outcome] \o Expand(Tail(runs))

\* The list lengths for which outcomes other than plain are explored, and how
\* many of them a run of that length may hold.
MixedSizes ==
    { 1, 2, BATCH_SIZE, BATCH_SIZE + 1, 2 * BATCH_SIZE + 1 }

SpecialBudget(n) == IF n \in MixedSizes THEN MaxSpecial ELSE 0

IsSpecial(run) == run.outcome # PlainMessage

NumSpecial(runs) == Cardinality({ k \in 1 .. Len(runs) : IsSpecial(runs[k]) })

analyze_emails_list ==
    /\ apc = "list"
    /\ \E t \in Elapse :
         /\ now' = t
         /\ \/ \* service.users().messages().list(...).execute() raises
               /\ ret' = AnalysisFailure("list")
               /\ failed' = "list"
               /\ apc' = "done"
               /\ calls' = Append(calls, [op |-> "list", ids |-> << >>])
               /\ UNCHANGED << messages, i, stats, one_year_ago, fetched, startedAt >>
            \/ \E n \in 0 .. MAX_EMAILS_TO_FETCH :
               /\ messages' = [k \in 1 .. n |-> k]
               /\ calls' = Append(calls, [op |-> "list", ids |-> << >>])
               /\ IF n = 0
                  THEN /\ ret' = << Some(EmptyStats), None >>
                       /\ apc' = "done"
                       /\ UNCHANGED << i, stats, one_year_ago, startedAt >>
                  ELSE /\ stats' = ZeroStats
                       /\ one_year_ago' = t - OLD_EMAIL_THRESHOLD_DAYS
                       /\ startedAt' = t
                       /\ i' = 0
                       /\ apc' = "batch"
                       /\ UNCHANGED ret
               /\ UNCHANGED << fetched, failed >>
    /\ UNCHANGED << cvars, uvars >>

analyze_emails_batch ==
    /\ apc = "batch"
    /\ LET ids == batch_messages(messages, i)
       IN  /\ calls' = Append(calls, [op |-> "batch", ids |-> ids])
           /\ \E t \in Elapse :
                /\ now' = t
                /\ \/ \* batch.execute() raises
                      /\ ret' = AnalysisFailure("batch")
                      /\ failed' = "batch"
                      /\ apc' = "done"
                      /\ UNCHANGED << i, stats, fetched >>
                   \/ \E runs \in Deliveries(Len(ids)) :
                      /\ NumSpecial(fetched) + NumSpecial(runs) <= SpecialBudget(Len(messages))
                      /\ stats' = RunCallbacks(<< stats >>, Expand(runs), one_year_ago)
                      /\ fetched' = fetched \o runs
                      /\ i' = i + BATCH_SIZE
                      /\ apc' = IF i + BATCH_SIZE < Len(messages)
                                THEN "batch" ELSE "profile"
                      /\ UNCHANGED << ret, failed >>
    /\ UNCHANGED << messages, one_year_ago, startedAt >>
    /\ UNCHANGED << cvars, uvars >>

\* profile.get("messagesTotal", len(messages))
ProfileTotals(n) == { Absent, IntField(n - 1), IntField(n), IntField(n + BATCH_SIZE) }

analyze_emails_profile ==
    /\ apc = "profile"
    /\ calls' = Append(calls, [op |-> "profile", ids |-> << >>])
    /\ \/ \* service.users().getProfile(userId="me").execute() raises
          /\ ret' = AnalysisFailure("profile")
          /\ failed' = "profile"
       \/ \E messagesTotal \in ProfileTotals(Len(messages)) :
          /\ LET total_messages_in_account ==
                     IF messagesTotal.tag = "absent"
                     THEN Len(messages) ELSE messagesTotal.v
             IN  ret' = << Some(FullStats(stats, messages,
                                          total_messages_in_account)), None >>
          /\ UNCHANGED failed
    /\ apc' = "done"
    \* the clock is not read after the last batch
    /\ UNCHANGED << messages, i, stats, one_year_ago, now, fetched, startedAt >>
    /\ UNCHANGED << cvars, uvars >>

AnalyzeNext ==
    \/ analyze_emails_list
    \/ analyze_emails_batch
    \/ analyze_emails_profile

\* ------------------------------------------------------------------------
\* Numbers of carbon_calculator.py
\* ------------------------------------------------------------------------
\* The code computes in floats.  A number is modelled exactly, as the
\* rational n/d * 10^e in lowest terms with no factor 10 left in n or d, so
\* that the products and quotients of the formula stay within machine
\* integers.
RECURSIVE Gcd(_, _)
Gcd(a, b) == IF b = 0 THEN a ELSE Gcd(b, a % b)

RECURSIVE Pow10(_)
Pow10(k) == IF k <= 0 THEN 1 ELSE 10 * Pow10(k - 1)

RECURSIVE Strip10(_)
Strip10(x) ==
    IF x.n = 0
    THEN [n |-> 0, d |-> 1, e |-> 0]
    ELSE IF x.n % 10 = 0
         THEN Strip10([x EXCEPT !.n = @ \div 10, !.e = @ + 1])
         ELSE IF x.d % 10 = 0
              THEN Strip10([x EXCEPT !.d = @ \div 10, !.e = @ - 1])
              ELSE x

Rat(n, d, e) ==
    LET g == Gcd(n, d)
    IN  Strip10([n |-> n \div g, d |-> d \div g, e |-> e])

Mul(a, b) ==
    LET g1 == Gcd(a.n, b.d)
        g2 == Gcd(b.n, a.d)
    IN  IF a.n = 0 \/ b.n = 0
        THEN Rat(0, 1, 0)
        ELSE Rat((a.n \div g1) * (b.n \div g2), (a.d \div g2) * (b.d \div g1),
                 a.e + b.e)

Div(a, b) == Mul(a, [n |-> b.d, d |-> b.n, e |-> 0 - b.e])

\* x \div 10^k; a machine integer has fewer than ten digits
Shift(x, k) == IF k >= 10 THEN 0 ELSE x \div Pow10(k)

\* a < b, for a, b >= 0: with l = a.n * b.d, r = b.n * a.d and k = b.e - a.e,
\* l < r * 10^k, decided without forming the power's product
Less(a, b) ==
    LET l == a.n * b.d
        r == b.n * a.d
        k == b.e - a.e
    IN  IF k >= 0
        THEN Shift(l, k) < r
        ELSE r > 0 /\ l <= Shift(r - 1, 0 - k)

\* Quotient and remainder of (q * d + r) * 10^k by d, one digit at a time
RECURSIVE LongDiv(_, _, _, _)
LongDiv(q, r, d, k) ==
    IF k = 0
    THEN [q |-> q, r |-> r]
    ELSE LongDiv(q * 10 + (r * 10) \div d, (r * 10) % d, d, k - 1)

\* round(x, places), as a whole number of units of 10^-places.  Exact ties
\* go to the even neighbour, as round() does on a value a double holds exactly.
Round(x, places) ==
    LET k == x.e + places
    IN  IF k >= 0
        THEN LET qr == LongDiv(x.n \div x.d, x.n % x.d, x.d, k)
             IN  HalfEven(qr.q, qr.r, x.d)
        ELSE IF k <= -10
             THEN 0
             ELSE RoundHalfEven(x.n, x.d * Pow10(0 - k))

\* ------------------------------------------------------------------------
\* Program constants (carbon_calculator.py 11-25)
\* ------------------------------------------------------------------------
KWH_PER_MB_PER_DAY == Rat(7, 1, -8)

KG_CO2_PER_KWH == Rat(233, 1, -3)

DAYS_PER_YEAR == 365

KG_CO2_PER_CAR_MILE == Rat(21, 1, -2)

KG_CO2_ABSORBED_PER_TREE_PER_YEAR == 21

\* ------------------------------------------------------------------------
\* calculate_carbon (carbon_calculator.py 28-91)
\* ------------------------------------------------------------------------
\* the estimate of a single day of storage, DAYS_PER_YEAR left out
annual_co2_kg_per_day(total_mb) ==
    Mul(Mul(total_mb, KWH_PER_MB_PER_DAY), KG_CO2_PER_KWH)

\* total_size_mb * DAYS_PER_YEAR * KWH_PER_MB_PER_DAY * KG_CO2_PER_KWH
annual_co2_kg(total_mb) ==
    Mul(Mul(Mul(total_mb, Rat(DAYS_PER_YEAR, 1, 0)), KWH_PER_MB_PER_DAY),
        KG_CO2_PER_KWH)

\* the ladder with the thresholds compared inclusively (<=)
severity_inclusive(co2) ==
    IF ~Less(Rat(1, 1, -2), co2) THEN "Very Low"
    ELSE IF ~Less(Rat(1, 1, -1), co2) THEN "Low"
    ELSE IF ~Less(Rat(1, 1, 0), co2) THEN "Moderate"
    ELSE "High"

\* the if/elif ladder of lines 60-71
severity(co2) ==
    IF Less(co2, Rat(1, 1, -2)) THEN "Very Low"
    ELSE IF Less(co2, Rat(1, 1, -1)) THEN "Low"
    ELSE IF Less(co2, Rat(1, 1, 0)) THEN "Moderate"
    ELSE "High"

calculate_carbon(total_mb) ==
    LET co2 == annual_co2_kg(total_mb)
        annual_co2_grams == Mul(co2, Rat(1000, 1, 0))
        equivalent_car_miles == Div(co2, KG_CO2_PER_CAR_MILE)
        trees_needed == Div(co2, Rat(KG_CO2_ABSORBED_PER_TREE_PER_YEAR, 1, 0))
        deletable_fraction == Rat(30, 100, 0)
        potential_savings_kg == Mul(co2, deletable_fraction)
    IN  [total_storage_analyzed_mb |-> Round(total_mb, 2),
         annual_co2_kg |-> Round(co2, 6),
         annual_co2_grams |-> Round(annual_co2_grams, 4),
         severity |-> severity(co2),
         equivalent_car_miles |-> Round(equivalent_car_miles, 4),
         trees_needed_to_offset |-> Round(trees_needed, 6),
         if_deleted_30_percent_kg |-> Round(potential_savings_kg, 6)]

\* The arguments explored: zero, whole megabytes on both sides of each
\* threshold, the arguments whose estimate is exactly 0.01, 0.1 and 1.0 kg
\* (10^9/595315 MB and its multiples), and sizes in hundredths of a megabyte
\* as analyze_emails produces them.
CarbonInputs ==
    { Rat(0, 1, 0), Rat(1, 1, 0), Rat(1, 1, -2), Rat(100, 1, 0),
      Rat(16, 1, 2), Rat(2, 119063, 8), Rat(168, 1, 1),
      Rat(16, 1, 3), Rat(2, 119063, 9), Rat(168, 1, 2),
      Rat(16, 1, 4), Rat(2, 119063, 10), Rat(168, 1, 3),
      Rat(3, 1, 6) }

carbon_calculate ==
    /\ estimate = None
    /\ estimate' = Some(calculate_carbon(mb_in))
    /\ UNCHANGED << mb_in, previous >>
    /\ UNCHANGED << avars, uvars >>

\* the caller asks for another estimate
carbon_next_call ==
    /\ estimate # None
    /\ previous' = Some([mb |-> mb_in, severity |-> estimate[1].severity])
    /\ \E m \in CarbonInputs : mb_in' = m
    /\ estimate' = None
    /\ UNCHANGED << avars, uvars >>

CarbonNext ==
    \/ carbon_calculate
    \/ carbon_next_call

\* ------------------------------------------------------------------------
\* The token file and Credentials (gmail_service.py)
\* ------------------------------------------------------------------------
Requests == { "r1", "r2" }      \* two /emails/summary requests in flight

Callback == "cb"                \* the /callback request

Threads == Requests \cup { Callback }

MissingFile == [state |-> "missing", data |-> None]

EmptyFile == [state |-> "empty", data |-> None]

RecordFile(data) == [state |-> "record", data |-> Some(data)]

\* flow.credentials after fetch_token, or a Credentials after refresh():
\* the library sets the expiry of the access token it has just received.
FreshCredentials(token, refresh_token) ==
    [token |-> Some(token), refresh_token |-> refresh_token,
     token_uri |-> "token_uri", client_id |-> "client_id",
     client_secret |-> "client_secret", scopes |-> { "gmail.readonly" },
     expiry |-> Some("set")]

\* token_data of save_credentials (lines 57-64): expiry is not among the keys
token_data(c) ==
    [token |-> c.token, refresh_token |-> c.refresh_token,
     token_uri |-> c.token_uri, client_id |-> c.client_id,
     client_secret |-> c.client_secret, scopes |-> c.scopes]

\* Credentials(token=..., refresh_token=..., ...) of lines 87-94: no expiry is
\* passed, so the object is built with expiry None
Credentials(data) ==
    [token |-> data.token, refresh_token |-> data.refresh_token,
     token_uri |-> data.token_uri, client_id |-> data.client_id,
     client_secret |-> data.client_secret, scopes |-> data.scopes,
     expiry |-> None]

\* creds.expired: a Credentials without expiry is never reported expired;
\* one with an expiry is expired once the token's lifetime is over
expired(c) == c.expiry # None /\ c.token # None /\ c.token[1] \in lapsed

\* creds.valid
valid(c) == c.token # None /\ ~expired(c)

Reply(status, cause) == Some([status |-> status, cause |-> cause])

\* ------------------------------------------------------------------------
\* save_credentials (gmail_service.py 49-67), called by a thread w
\* ------------------------------------------------------------------------
\* open(TOKEN_FILE, "w") truncates the file
save_credentials_open(w) ==
    /\ pc[w] = "save_open"
    /\ tokenFile' = EmptyFile
    /\ pc' = [pc EXCEPT ![w] = "save_write"]
    /\ UNCHANGED << issued, lapsed, creds, answer, logins, observed, checked,
                    contacted >>
    /\ UNCHANGED << avars, cvars >>

\* json.dump(token_data, f) and the close that flushes it; then the caller
\* goes on: /callback answers, get_gmail_service builds the client
save_credentials_write(w) ==
    /\ pc[w] = "save_write"
    /\ tokenFile' = RecordFile(token_data(creds[w][1]))
    /\ IF w = Callback
       THEN /\ pc' = [pc EXCEPT ![w] = "idle"]
            /\ answer' = [answer EXCEPT ![w] = Reply(200, "connected")]
       ELSE /\ pc' = [pc EXCEPT ![w] = "build"]
            /\ UNCHANGED answer
    /\ UNCHANGED << issued, lapsed, creds, logins, observed, checked, contacted >>
    /\ UNCHANGED << avars, cvars >>

\* ------------------------------------------------------------------------
\* callback (auth_routes.py 38-98)
\* ------------------------------------------------------------------------
callback ==
    /\ pc[Callback] = "idle"
    /\ logins < MaxLogins
    /\ logins' = logins + 1
    /\ \/ \* the state parameter does not match the session's
          /\ answer' = [answer EXCEPT ![Callback] = Reply(400, "state_mismatch")]
          /\ UNCHANGED << issued, creds, pc >>
       \/ \* flow.fetch_token: the provider mints an access token, with or
          \* without a refresh token
          \E refresh_token \in { None, Some(issued + 1) } :
             /\ issued' = issued + 1
             /\ creds' = [creds EXCEPT ![Callback] =
                              Some(FreshCredentials(issued + 1, refresh_token))]
             /\ pc' = [pc EXCEPT ![Callback] = "save_open"]
             /\ answer' = [answer EXCEPT ![Callback] = None]
    /\ UNCHANGED << tokenFile, lapsed, observed, checked, contacted >>
    /\ UNCHANGED << avars, cvars >>

\* The provider: an access token's lifetime ends
token_lapses ==
    /\ \E t \in 1 .. issued :
         /\ t \notin lapsed
         /\ lapsed' = lapsed \cup { t }
    /\ UNCHANGED << tokenFile, issued, pc, creds, answer, logins, observed,
                    checked, contacted >>
    /\ UNCHANGED << avars, cvars >>

\* ------------------------------------------------------------------------
\* get_gmail_service (gmail_service.py 70-114) within email_summary
\* (email_routes.py 12-47), for a request r
\* ------------------------------------------------------------------------
\* if not os.path.exists(TOKEN_FILE): return None, "Not authenticated..."
\* and email_summary answers 401
get_gmail_service_exists(r) ==
    /\ pc[r] = "exists"
    /\ IF tokenFile.state = "missing"
       THEN /\ answer' = [answer EXCEPT ![r] = Reply(401, "not_authenticated")]
            /\ pc' = [pc EXCEPT ![r] = "done"]
       ELSE /\ pc' = [pc EXCEPT ![r] = "load"]
            /\ UNCHANGED answer
    /\ UNCHANGED << tokenFile, issued, lapsed, creds, logins, observed, checked,
                    contacted >>
    /\ UNCHANGED << avars, cvars >>

\* open(TOKEN_FILE, "r"), json.load, Credentials(...), and the validity test
\* of lines 98-106.  json.load raises on an empty file; nothing catches it
\* and the framework answers 500.
get_gmail_service_load(r) ==
    /\ pc[r] = "load"
    /\ observed' = [observed EXCEPT ![r] = Some(tokenFile)]
    /\ IF tokenFile.state # "record"
       THEN /\ answer' = [answer EXCEPT ![r] = Reply(500, "unhandled_exception")]
            /\ pc' = [pc EXCEPT ![r] = "done"]
            /\ UNCHANGED << issued, creds, checked, contacted >>
       ELSE LET c == Credentials(tokenFile.data[1])
            IN  /\ checked' = [checked EXCEPT ![r] =
                        Some([expired |-> c.token # None /\ c.token[1] \in lapsed,
                              has_refresh |-> c.refresh_token # None])]
                /\ IF valid(c)
                   THEN /\ creds' = [creds EXCEPT ![r] = Some(c)]
                        /\ pc' = [pc EXCEPT ![r] = "build"]
                        /\ UNCHANGED << issued, answer, contacted >>
                   ELSE IF expired(c) /\ c.refresh_token # None
                        THEN \* creds.refresh(Request()), then save_credentials
                             /\ contacted' = [contacted EXCEPT ![r] = TRUE]
                             /\ \E refreshed \in BOOLEAN :
                                  IF refreshed
                                  THEN /\ issued' = issued + 1
                                       /\ creds' = [creds EXCEPT ![r] =
                                              Some(FreshCredentials(issued + 1,
                                                                    c.refresh_token))]
                                       /\ pc' = [pc EXCEPT ![r] = "save_open"]
                                       /\ UNCHANGED answer
                                  ELSE /\ answer' = [answer EXCEPT ![r] =
                                              Reply(401, "refresh_failed")]
                                       /\ pc' = [pc EXCEPT ![r] = "done"]
                                       /\ UNCHANGED << issued, creds >>
                        ELSE /\ answer' = [answer EXCEPT ![r] =
                                    Reply(401, "invalid_credentials")]
                             /\ pc' = [pc EXCEPT ![r] = "done"]
                             /\ UNCHANGED << issued, creds, contacted >>
    /\ UNCHANGED << tokenFile, lapsed, logins >>
    /\ UNCHANGED << avars, cvars >>

\* build("gmail", "v1", credentials=creds); on an exception get_gmail_service
\* returns (None, "Failed to build Gmail service: ...") and email_summary
\* answers as for every error of get_gmail_service
get_gmail_service_build(r) ==
    /\ pc[r] = "build"
    /\ \/ /\ answer' = [answer EXCEPT ![r] = Reply(401, "build_failed")]
          /\ pc' = [pc EXCEPT ![r] = "done"]
       \/ /\ pc' = [pc EXCEPT ![r] = "analyze"]
          /\ UNCHANGED answer
    /\ UNCHANGED << tokenFile, issued, lapsed, creds, logins, observed, checked,
                    contacted >>
    /\ UNCHANGED << avars, cvars >>

\* What analyze_emails may hand back to email_summary
AnalysisResults ==
    { AnalysisFailure("list"),
      << Some(EmptyStats), None >>,
      << Some(FullStats([ZeroStats EXCEPT !.total_size_bytes = 3 * 1024 * 1024],
                        << 1, 2, 3 >>, 3)), None >> }

\* analysis, error = analyze_emails(service) and the rest of email_summary
email_summary_analyze(r) ==
    /\ pc[r] = "analyze"
    /\ \E result \in AnalysisResults :
         IF result[2] # None
         THEN answer' = [answer EXCEPT ![r] = Reply(500, "analysis_failed")]
         ELSE answer' = [answer EXCEPT ![r] =
                  Some([status |-> 200, cause |-> "none",
                        email_stats |-> result[1][1],
                        carbon_footprint |->
                            calculate_carbon(Rat(result[1][1].total_size_mb, 100, 0))])]
    /\ pc' = [pc EXCEPT ![r] = "done"]
    /\ UNCHANGED << tokenFile, issued, lapsed, creds, logins, observed, checked,
                    contacted >>
    /\ UNCHANGED << avars, cvars >>

AuthNext ==
    \/ callback
    \/ \E w \in Threads : save_credentials_open(w)
    \/ \E w \in Threads : save_credentials_write(w)
    \/ token_lapses
    \/ \E r \in Requests : get_gmail_service_exists(r)
    \/ \E r \in Requests : get_gmail_service_load(r)
    \/ \E r \in Requests : get_gmail_service_build(r)
    \/ \E r \in Requests : email_summary_analyze(r)

\* ------------------------------------------------------------------------
\* Specifications
\* ------------------------------------------------------------------------
vars == << avars, cvars, uvars >>

\* One run of analyze_emails, from its entry
AnalyzeInit ==
    /\ apc = "list"
    /\ messages = << >>
    /\ i = 0
    /\ stats = ZeroStats
    /\ one_year_ago = 0
    /\ now = StartDay
    /\ ret = << None, None >>
    /\ calls = << >>
    /\ fetched = << >>
    /\ startedAt = 0
    /\ failed = "none"
    /\ mb_in = Rat(0, 1, 0)
    /\ estimate = None
    /\ previous = None
    /\ tokenFile = MissingFile
    /\ issued = 0
    /\ lapsed = { }
    /\ pc = [t \in Threads |-> "idle"]
    /\ creds = [t \in Threads |-> None]
    /\ answer = [t \in Threads |-> None]
    /\ logins = 0
    /\ observed = [r \in Requests |-> None]
    /\ checked = [r \in Requests |-> None]
    /\ contacted = [r \in Requests |-> FALSE]

SpecAnalyze == AnalyzeInit /\ [][AnalyzeNext]_vars

\* Calls of calculate_carbon, one after another
CarbonInit ==
    /\ mb_in \in CarbonInputs
    /\ estimate = None
    /\ previous = None
    /\ apc = "done"
    /\ messages = << >>
    /\ i = 0
    /\ stats = ZeroStats
    /\ one_year_ago = 0
    /\ now = StartDay
    /\ ret = << None, None >>
    /\ calls = << >>
    /\ fetched = << >>
    /\ startedAt = 0
    /\ failed = "none"
    /\ tokenFile = MissingFile
    /\ issued = 0
    /\ lapsed = { }
    /\ pc = [t \in Threads |-> "idle"]
    /\ creds = [t \in Threads |-> None]
    /\ answer = [t \in Threads |-> None]
    /\ logins = 0
    /\ observed = [r \in Requests |-> None]
    /\ checked = [r \in Requests |-> None]
    /\ contacted = [r \in Requests |-> FALSE]

SpecCarbon == CarbonInit /\ [][CarbonNext]_vars

\* The token file under two /emails/summary requests and the OAuth callback
AuthInit ==
    /\ tokenFile = MissingFile
    /\ issued = 0
    /\ lapsed = { }
    /\ pc = [t \in Threads |-> IF t = Callback THEN "idle" ELSE "exists"]
    /\ creds = [t \in Threads |-> None]
    /\ answer = [t \in Threads |-> None]
    /\ logins = 0
    /\ observed = [r \in Requests |-> None]
    /\ checked = [r \in Requests |-> None]
    /\ contacted = [r \in Requests |-> FALSE]
    /\ apc = "done"
    /\ messages = << >>
    /\ i = 0
    /\ stats = ZeroStats
    /\ one_year_ago = 0
    /\ now = StartDay
    /\ ret = << None, None >>
    /\ calls = << >>
    /\ fetched = << >>
    /\ startedAt = 0
    /\ failed = "none"
    /\ mb_in = Rat(0, 1, 0)
    /\ estimate = None
    /\ previous = None

SpecAuth == AuthInit /\ [][AuthNext]_vars

\* ------------------------------------------------------------------------
\* Reference quantities over the outcomes delivered
\* ------------------------------------------------------------------------
\* A per-message outcome is a failure when the batch reports an exception for
\* it or when processing its response raises.
Failure(o) == o.exception \/ o.internalDate.tag = "bad"

SizeOf(o) == IF o.sizeEstimate.tag = "int" THEN o.sizeEstimate.v ELSE 0

DateOf(o) == IF o.internalDate.tag = "int" THEN o.internalDate.v ELSE 0

AllSucceeded(runs) ==
    \A k \in 1 .. Len(runs) : ~Failure(runs[k].outcome)

\* What one successfully fetched message adds to each reference quantity
Weight(what, o) ==
    CASE Failure(o) -> 0
      [] what = "size" -> SizeOf(o)
      [] what = "large" -> IF SizeOf(o) >= 1048576 THEN 1 ELSE 0
      [] what = "old" -> IF DateOf(o) < startedAt - 365 THEN 1 ELSE 0

RECURSIVE SumRuns(_, _)
SumRuns(runs, what) ==
    IF runs = << >>
    THEN 0
    ELSE Weight(what, Head(runs).outcome) * Head(runs).count
         + SumRuns(Tail(runs), what)

RefSize(runs) == SumRuns(runs, "size")

RefLarge(runs) == SumRuns(runs, "large")

RefOld(runs) == SumRuns(runs, "old")

Returned == apc = "done" /\ failed = "none"

Result == ret[1][1]

CountersAre(size, large, old) ==
    /\ Result.total_size_bytes = size
    /\ Result.large_attachment_emails_count = large
    /\ Result.old_emails_count = old

BatchCalls == SelectSeq(calls, LAMBDA c : c.op = "batch")

RECURSIVE Flatten(_)
Flatten(cs) == IF cs = << >> THEN << >> ELSE Head(cs).ids \o Flatten(Tail(cs))

HasRun(o) == \E k \in 1 .. Len(fetched) : fetched[k] = Run(o, 1)

\* ------------------------------------------------------------------------
\* C1.  A message whose per-message outcome is a failure (an exception
\* reported by the batch, or a response whose processing raises part-way)
\* contributes nothing to total_size_bytes, large_attachment_count and
\* old_emails_count: the counters returned are those of the other messages,
\* while emails_analyzed still reports every listed message.
\* ------------------------------------------------------------------------
C1_FailedMessageExcluded ==
    (Returned /\ Len(messages) > 0) =>
        /\ CountersAre(RefSize(fetched), RefLarge(fetched), RefOld(fetched))
        /\ Result.emails_analyzed = Len(messages)

\* ------------------------------------------------------------------------
\* C2.  analyze_emails is all-or-nothing with respect to the list call and
\* the profile lookup: when either fails the result is (None, error), and in
\* every outcome exactly one of the two returned values is None.
\* ------------------------------------------------------------------------
C2_AllOrNothing ==
    apc = "done" =>
        /\ (ret[1] = None) # (ret[2] = None)
        /\ failed \in {"list", "profile"} => (ret[1] = None /\ ret[2] # None)

\* The profile lookup fails after batches have been aggregated.
C2_Witness ==
    /\ apc = "done"
    /\ failed = "profile"
    /\ stats.total_size_bytes > 0
    /\ Len(BatchCalls) >= 2
    /\ ret[1] = None

C4_BatchPlan ==
    LET n == Len(messages)
        planned == (n + 99) \div 100
    IN  /\ \A k \in 1 .. Len(calls) :
             /\ calls[k].op = "list" <=> k = 1
             /\ calls[k].op = "batch" =>
                    /\ k <= 1 + planned
                    /\ Len(calls[k].ids) \in 1 .. 100
             /\ calls[k].op = "profile" => k = planned + 2
        /\ Returned =>
             /\ Len(BatchCalls) = planned
             /\ Flatten(BatchCalls) = messages
             /\ Len(calls) = IF n = 0 THEN 1 ELSE planned + 2

\* 500 identifiers: five batches, then the profile lookup.
C4_Witness ==
    /\ Returned
    /\ Len(messages) = 500
    /\ Len(BatchCalls) = 5
    /\ calls[7].op = "profile"

\* ------------------------------------------------------------------------
\* C9.  Every successful result has emails_analyzed at most
\* total_emails_in_account and at most the page cap of 500, whatever the
\* provider returns from the list call and the profile lookup.
\* ------------------------------------------------------------------------
C9_AnalyzedWithinTotals ==
    (Returned /\ Len(messages) > 0) =>
        /\ Result.emails_analyzed <= Result.total_emails_in_account
        /\ Result.emails_analyzed <= 500


\* ------------------------------------------------------------------------
\* Reference definitions for the token and route claims
\* ------------------------------------------------------------------------
Answered(r) == answer[r] # None

ReauthCauses == { "not_authenticated", "invalid_credentials", "refresh_failed" }

\* C5: get_gmail_service treats the stored record as ensure_valid requires:
\* an unexpired stored token is used as it is, with no call to the token
\* endpoint and no write of the file; an expired one with a refresh_token
\* makes the request call the token endpoint, and a failed refresh is
\* answered with the re-authentication error; an expired one without a
\* refresh_token is answered with the re-authentication error without any
\* call to the provider.
C5_EnsureValid ==
    \A r \in Requests :
        checked[r] # None =>
            LET c == checked[r][1]
            IN  /\ ~c.expired =>
                      /\ ~contacted[r]
                      /\ pc[r] \notin { "save_open", "save_write" }
                      /\ Answered(r) => answer[r][1].cause \notin ReauthCauses
                /\ (c.expired /\ c.has_refresh) =>
                      /\ contacted[r]
                      /\ (Answered(r) /\ answer[r][1].status = 401)
                             => answer[r][1].cause = "refresh_failed"
                /\ (c.expired /\ ~c.has_refresh) =>
                      /\ ~contacted[r]
                      /\ pc[r] = "done"
                      /\ answer[r] = Reply(401, "invalid_credentials")

\* C6: /emails/summary answers 401 only when there are no valid credentials
\* (no record, or credentials that are invalid or could not be refreshed);
\* a failure to build the Gmail client and a failure of the analysis are both
\* answered with a server error (500); and the success payload is sent only
\* when none of these happened.
C6_FailureSignals ==
    \A r \in Requests :
        Answered(r) =>
            LET a == answer[r][1]
            IN  /\ a.status = 401 => a.cause \in ReauthCauses
                /\ a.cause = "build_failed" => a.status >= 500
                /\ a.cause = "analysis_failed" => a.status = 500
                /\ a.status = 200 =>
                      /\ a.cause = "none"
                      /\ DOMAIN a = { "status", "cause", "email_stats",
                                      "carbon_footprint" }

\* C7: whatever the interleaving of a save_credentials call with a request
\* that loads the token file, the request reads a complete record, never an
\* empty or partly written file.
C7_AtomicReplace ==
    \A r \in Requests :
        observed[r] # None => observed[r][1].state = "record"

\* ------------------------------------------------------------------------
\* Reference definitions for the severity claim
\* ------------------------------------------------------------------------
TierOf(name) ==
    CASE name = "Very Low" -> 0
      [] name = "Low"      -> 1
      [] name = "Moderate" -> 2
      [] name = "High"     -> 3

\* The ladder's thresholds 0.01, 0.1 and 1.0 kg
Thresholds == { Rat(1, 1, -2), Rat(1, 1, -1), Rat(1, 1, 0) }

\* Annual kg of CO2 of mb megabytes, unrounded: 7e-8 * 365 * 0.233 per MB
RefCo2(mb) == Mul(mb, Rat(595315, 1, -11))

\* The tier is the number of thresholds the unrounded value has reached
RefTier(co2) == Cardinality({ t \in Thresholds : ~Less(co2, t) })

\* C10: the severity calculate_carbon returns is the tier of the unrounded
\* annual_co2_kg on the ladder 0.01 / 0.1 / 1.0, a value exactly on a
\* threshold belonging to the higher tier; and of two calls, the one with the
\* larger total_size_mb never gets the lower tier.
C10_SeverityLadder ==
    estimate # None =>
        /\ TierOf(estimate[1].severity) = RefTier(RefCo2(mb_in))
        /\ previous # None =>
              /\ ~Less(mb_in, previous[1].mb)
                     => TierOf(previous[1].severity) <= TierOf(estimate[1].severity)
              /\ ~Less(previous[1].mb, mb_in)
                     => TierOf(estimate[1].severity) <= TierOf(previous[1].severity)

\* 1679.78... MB gives exactly 0.01 kg and is rated Low, after a call with
\* 1600 MB that was rated Very Low
C10_Witness ==
    /\ estimate # None
    /\ mb_in = Rat(2, 119063, 8)
    /\ annual_co2_kg(mb_in) = Rat(1, 1, -2)
    /\ estimate[1].severity = "Low"
    /\ previous # None
    /\ previous[1].mb = Rat(16, 1, 2)
    /\ previous[1].severity = "Very Low"


\* ------------------------------------------------------------------------
\* Reference definitions for the worked example
\* ------------------------------------------------------------------------
ExampleInput == Rat(100, 1, 0)

Near(a, b) == a - b \in -1 .. 1

ExampleComputed == estimate # None /\ mb_in = ExampleInput

\* C11 as the specification words it: for total_size_mb = 100 the estimate is
\* about 0.850700 kg a year, rated High, about 4.0510 car miles, about
\* 0.040510 trees and about 0.255210 kg of potential savings (kilograms and
\* trees in millionths, miles in ten-thousandths).
C11_ExampleAsStated ==
    ExampleComputed =>
        /\ Near(estimate[1].annual_co2_kg, 850700)
        /\ estimate[1].severity = "High"
        /\ Near(estimate[1].equivalent_car_miles, 40510)
        /\ Near(estimate[1].trees_needed_to_offset, 40510)
        /\ Near(estimate[1].if_deleted_30_percent_kg, 255210)

\* C11, amended: for total_size_mb = 100 the product 100 x 365 x 7e-8 x 0.233
\* is 0.000595315 kg, so calculate_carbon returns annual_co2_kg 0.000595,
\* severity Very Low, 0.0028 car miles, 0.000028 trees and 0.000179 kg of
\* potential savings, each derived from the unrounded value.
C11_Example ==
    ExampleComputed =>
        /\ annual_co2_kg(mb_in) = Rat(595315, 1, -9)
        /\ estimate[1].annual_co2_kg = 595
        /\ estimate[1].annual_co2_grams = 5953
        /\ estimate[1].severity = "Very Low"
        /\ estimate[1].equivalent_car_miles = 28
        /\ estimate[1].trees_needed_to_offset = 28
        /\ estimate[1].if_deleted_30_percent_kg = 179
        /\ estimate[1].total_storage_analyzed_mb = 10000

\* calculate_carbon(100) has returned
C11_Witness ==
    /\ ExampleComputed
    /\ estimate[1].annual_co2_kg = 595
    /\ estimate[1].severity = "Very Low"

================================================================
